---------------------------- MODULE Spec2Model ----------------------------
(***************************************************************************)
(* ElGamal over Z_n with a hand-written number-theory library.             *)
(*                                                                         *)
(*   src/modules/NumberTheory.py   stateless functions (operators below)   *)
(*   src/ElGamal.py                class ElGamal: the fields of a party    *)
(*                                 object and the methods that set them    *)
(*                                                                         *)
(* Python integers are unbounded, so no width is modelled; the bounds      *)
(* below keep every intermediate product far below 2^31.                   *)
(***************************************************************************)
EXTENDS Integers, Sequences, FiniteSets, TLC

VARIABLES party, pc, message, cipher, recvMsg, call

vars == <<party, pc, message, cipher, recvMsg, call>>

(***************************************************************************)
(* Bounds of the model.                                                    *)
(***************************************************************************)
\* largest scalar argument handed to a NumberTheory function
MaxArg == 300
\* largest base / number, exponent and modulus of the modular functions
MaxBase == 20
MaxExp == 16
MaxMod == 12
\* largest argument of sieveOfEratosthenes
MaxSieve == 60
\* largest argument of factorizationTrialDivision
MaxFactor == 1500
\* largest bound of randomNumberInRange
MaxRange == 6
\* largest argument of millerRabin64Deterministic
MaxTested == 400

(***************************************************************************)
(* Outcome of a call: a returned value or a raised exception.              *)
(***************************************************************************)
Ok(v) == [exc |-> "none", val |-> v]

Raise(e) == [exc |-> e, val |-> 0]

(***************************************************************************)
(* Reference arithmetic, used only to state properties.                    *)
(***************************************************************************)
Divides(d, n) == n % d = 0

IsPrime(n) == n >= 2 /\ \A d \in 2..(n - 1) : ~Divides(d, n)

\* b^e mod m by e successive multiplications
RECURSIVE PowMod(_, _, _)
PowMod(b, e, m) == IF e = 0 THEN 1 % m ELSE (b * PowMod(b, e - 1, m)) % m

\* b^e mod m by halving the exponent
RECURSIVE PowModHalving(_, _, _)
PowModHalving(b, e, m) ==
    IF e = 0 THEN 1 % m
    ELSE LET h == PowModHalving(b, e \div 2, m)
             sq == (h * h) % m
         IN  IF e % 2 = 0 THEN sq ELSE (sq * b) % m

RECURSIVE Gcd(_, _)
Gcd(a, b) == IF b = 0 THEN a ELSE Gcd(b, a % b)

(***************************************************************************)
(* NumberTheory: integer functions                                         *)
(***************************************************************************)
\* the while loop of euclidean on remainderList = [r0, r1]
RECURSIVE euclideanLoop(_, _)
euclideanLoop(r0, r1) ==
    IF r1 # 0
    THEN LET quotient == r0 \div r1
             remainder == r0 - quotient * r1
         IN  euclideanLoop(r1, remainder)
    ELSE r0

euclidean(number1, number2) == euclideanLoop(number1, number2)

\* the while loop of sqrt (babylonian iteration)
RECURSIVE sqrtLoop(_, _, _)
sqrtLoop(number, x, y) ==
    IF y < x
    THEN LET x2 == (x + y) \div 2
         IN  sqrtLoop(number, x2, number \div x2)
    ELSE x

sqrt(number) == sqrtLoop(number, number, 1)

(***************************************************************************)
(* NumberTheory: modulo functions                                          *)
(***************************************************************************)
\* the while loop of multiplicativeInverse on alphaList = [a0, a1] and
\* remainderList = [r0, r1]
RECURSIVE inverseLoop(_, _, _, _, _)
inverseLoop(a0, a1, r0, r1, modulo) ==
    IF r1 # 0
    THEN LET quotient == r0 \div r1
             alpha == (a0 - ((quotient * a1) % modulo)) % modulo
             remainder == r0 - quotient * r1
         IN  inverseLoop(a1, alpha, r1, remainder, modulo)
    ELSE IF r0 = 1 THEN a0 ELSE 0

\* faulty variant: alphaList starts as [0, 1], the coefficient of modulo
multiplicativeInverseSwapped(number, modulo) ==
    inverseLoop(0, 1, number, modulo, modulo)

multiplicativeInverse(number, modulo) ==
    inverseLoop(1, 0, number, modulo, modulo)

\* (x*y)%modulo on Python's unbounded integers.  The factors are reduced
\* first, which leaves the value unchanged for x, y >= 0 and keeps the
\* product of a large base (1795265022 squared) a representable integer.
mulMod(x, y, modulo) == ((x % modulo) * (y % modulo)) % modulo

\* the while loop of modularExponentiation
RECURSIVE expLoop(_, _, _, _)
expLoop(p, b, e, modulo) ==
    IF 0 < e
    THEN expLoop(IF e % 2 = 1 THEN mulMod(p, b, modulo) ELSE p,
                 mulMod(b, b, modulo), e \div 2, modulo)
    ELSE p

\* faulty variant: the loop stops one bit early (0 < e >> 1)
RECURSIVE expLoopShort(_, _, _, _)
expLoopShort(p, b, e, modulo) ==
    IF 0 < e \div 2
    THEN expLoopShort(IF e % 2 = 1 THEN mulMod(p, b, modulo) ELSE p,
                      mulMod(b, b, modulo), e \div 2, modulo)
    ELSE p

modularExponentiationShort(base, exponent, modulo) ==
    expLoopShort(1, base, exponent, modulo)

modularExponentiation(base, exponent, modulo) ==
    expLoop(1, base, exponent, modulo)

(***************************************************************************)
(* NumberTheory: prime functions                                           *)
(***************************************************************************)
\* the loop "for _ in range(s - 1)" of millerRabin: i squarings still to do;
\* a hit sets nDivides and the loop goes on (continue, not break)
RECURSIVE millerRabinSquarings(_, _, _, _)
millerRabinSquarings(power, n, i, nDivides) ==
    IF i > 0
    THEN LET power2 == (power * power) % n
         IN  millerRabinSquarings(power2, n, i - 1, nDivides \/ power2 = n - 1)
    ELSE nDivides

\* the constants s and d of n - 1 = 2^s d, as <<s, d>>
RECURSIVE millerRabinSplit(_, _)
millerRabinSplit(s, d) ==
    IF d % 2 = 0 THEN millerRabinSplit(s + 1, d \div 2) ELSE <<s, d>>

\* the loop over the bases, from index i of bList
RECURSIVE millerRabinBases(_, _, _, _, _)
millerRabinBases(n, bList, i, s, d) ==
    IF i > Len(bList) THEN TRUE
    ELSE LET power == modularExponentiation(bList[i], d, n)
         IN  IF power = 1 \/ power = n - 1
             THEN millerRabinBases(n, bList, i + 1, s, d)
             ELSE IF ~millerRabinSquarings(power, n, s - 1, FALSE)
                  THEN FALSE
                  ELSE millerRabinBases(n, bList, i + 1, s, d)

millerRabin(n, bList) ==
    IF n = 2 THEN TRUE
    ELSE IF n < 2 \/ n % 2 = 0 THEN FALSE
    ELSE LET sd == millerRabinSplit(0, n - 1)
         IN  millerRabinBases(n, bList, 1, sd[1], sd[2])

\* the fixed bases of the 64-bit deterministic test
millerRabin64DeterministicBases ==
    <<2, 325, 9375, 28178, 450775, 9780504, 1795265022>>

millerRabin64Deterministic(n) ==
    millerRabin(n, millerRabin64DeterministicBases)

\* the inner loop of the sieve: strike p2, p2 + p, ... <= maxNumber
RECURSIVE sieveStrike(_, _, _, _)
sieveStrike(isPrimeList, p2, p, maxNumber) ==
    IF p2 <= maxNumber
    THEN sieveStrike([isPrimeList EXCEPT ![p2] = FALSE], p2 + p, p, maxNumber)
    ELSE isPrimeList

\* the outer loop of the sieve, while p*p <= maxNumber
RECURSIVE sieveLoop(_, _, _)
sieveLoop(isPrimeList, p, maxNumber) ==
    IF p * p <= maxNumber
    THEN IF ~isPrimeList[p]
         THEN sieveLoop(isPrimeList, p + 1, maxNumber)
         ELSE sieveLoop(sieveStrike(isPrimeList, p * p, p, maxNumber),
                        p + 1, maxNumber)
    ELSE isPrimeList

\* the final loop of the sieve: the indices still marked, in increasing order
RECURSIVE sieveCollect(_, _, _, _)
sieveCollect(isPrimeList, p, maxNumber, primeList) ==
    IF p > maxNumber THEN primeList
    ELSE sieveCollect(isPrimeList, p + 1, maxNumber,
                      IF isPrimeList[p] THEN Append(primeList, p) ELSE primeList)

\* sieveOfEratosthenes as an outcome: the list [True]*(maxNumber + 1) has
\* indices 0..maxNumber (none when maxNumber < 0), and the two assignments
\* isPrimeList[0], isPrimeList[1] raise IndexError on an index it lacks
sieveOfEratosthenes(maxNumber) ==
    IF maxNumber < 1 THEN Raise("IndexError")
    ELSE LET allTrue == [i \in 0..maxNumber |-> TRUE]
             initial == [allTrue EXCEPT ![0] = FALSE, ![1] = FALSE]
             sieved == sieveLoop(initial, 2, maxNumber)
         IN  Ok(sieveCollect(sieved, 0, maxNumber, <<>>))

\* the loop "while n != 0: n >>= 1; h += 1"
RECURSIVE bitCountLoop(_, _)
bitCountLoop(n, h) == IF n # 0 THEN bitCountLoop(n \div 2, h + 1) ELSE h

sieveOfEratosthenesForAlmostDeterministicMillerRabin(number) ==
    LET h == bitCountLoop(number, 0)
    IN  sieveOfEratosthenes((h \div 2) + 1).val

\* the trial division loop of fastPrimalityTest, from index i of dList:
\* <<TRUE, verdict>> when a divisor decides, <<FALSE, _>> when none divides
RECURSIVE trialDivision(_, _, _)
trialDivision(n, dList, i) ==
    IF i > Len(dList) THEN <<FALSE, FALSE>>
    ELSE IF n % dList[i] = 0 THEN <<TRUE, n = dList[i]>>
    ELSE trialDivision(n, dList, i + 1)

fastPrimalityTest(n, dList, bList) ==
    IF n = 2 THEN TRUE
    ELSE IF n < 2 \/ n % 2 = 0 THEN FALSE
    ELSE LET t == trialDivision(n, dList, 1)
         IN  IF t[1] THEN t[2] ELSE millerRabin(n, bList)

\* the search loop of nextPrime: "prime -= 2" until the test passes
RECURSIVE nextPrimeLoop(_, _)
nextPrimeLoop(prime, pList) ==
    IF ~fastPrimalityTest(prime, pList, pList)
    THEN nextPrimeLoop(prime - 2, pList)
    ELSE prime

nextPrime(number) ==
    LET prime == IF number % 2 = 0 THEN number + 1 ELSE number
        pList == sieveOfEratosthenesForAlmostDeterministicMillerRabin(prime)
    IN  nextPrimeLoop(prime, pList)


\* the loop "while n%d == 0" of factorizationTrialDivision, as <<n, e>>
RECURSIVE divideOut(_, _, _)
divideOut(n, d, e) ==
    IF n % d = 0 THEN divideOut(n \div d, d, e + 1) ELSE <<n, e>>

\* the loop "while d <= sqrtN" of factorizationTrialDivision and its tail
RECURSIVE factorizationLoop(_, _, _, _)
factorizationLoop(n, sqrtN, d, factorization) ==
    IF d <= sqrtN
    THEN IF n % d = 0
         THEN LET ne == divideOut(n, d, 0)
              IN  factorizationLoop(ne[1], sqrt(ne[1]), d + 1,
                                    Append(factorization, <<d, ne[2]>>))
         ELSE factorizationLoop(n, sqrtN, d + 1, factorization)
    ELSE IF n # 1 THEN Append(factorization, <<n, 1>>) ELSE factorization

\* faulty variant: the remainder n # 1 left after the loop is not appended
RECURSIVE factorizationLoopNoRemainder(_, _, _, _)
factorizationLoopNoRemainder(n, sqrtN, d, factorization) ==
    IF d <= sqrtN
    THEN IF n % d = 0
         THEN LET ne == divideOut(n, d, 0)
              IN  factorizationLoopNoRemainder(ne[1], sqrt(ne[1]), d + 1,
                                    Append(factorization, <<d, ne[2]>>))
         ELSE factorizationLoopNoRemainder(n, sqrtN, d + 1, factorization)
    ELSE factorization

factorizationTrialDivisionNoRemainder(number) ==
    factorizationLoopNoRemainder(number, sqrt(number), 2, <<>>)

factorizationTrialDivision(number) ==
    factorizationLoop(number, sqrt(number), 2, <<>>)

\* the loop "while modularExponentiation(a, n, p) == 1: a += 1"
RECURSIVE primitiveRootBase(_, _, _)
primitiveRootBase(a, n, p) ==
    IF modularExponentiation(a, n, p) = 1
    THEN primitiveRootBase(a + 1, n, p)
    ELSE a

\* the loop of primitiveRoot over the factors (q, e), from index i
RECURSIVE primitiveRootLoop(_, _, _, _)
primitiveRootLoop(factorization, p, i, g) ==
    IF i > Len(factorization) THEN g
    ELSE LET q == factorization[i][1]
             e == factorization[i][2]
             a == primitiveRootBase(2, (p - 1) \div q, p)
             h == modularExponentiation(a, (p - 1) \div (q ^ e), p)
         IN  primitiveRootLoop(factorization, p, i + 1, (g * h) % p)

\* faulty variant: h = a^((p-1)/q), the exponent e of the factor is ignored
RECURSIVE primitiveRootLoopNoExponent(_, _, _, _)
primitiveRootLoopNoExponent(factorization, p, i, g) ==
    IF i > Len(factorization) THEN g
    ELSE LET q == factorization[i][1]
             a == primitiveRootBase(2, (p - 1) \div q, p)
             h == modularExponentiation(a, (p - 1) \div q, p)
         IN  primitiveRootLoopNoExponent(factorization, p, i + 1, (g * h) % p)

primitiveRootNoExponent(factorization, p) ==
    primitiveRootLoopNoExponent(factorization, p, 1, 1)

primitiveRoot(factorization, p) == primitiveRootLoop(factorization, p, 1, 1)

(***************************************************************************)
(* NumberTheory: random functions.  A draw is a nondeterministic choice;   *)
(* each operator is the set of values the call can return.                 *)
(***************************************************************************)
\* secrets.randbelow(n): an integer in [0, n) (ValueError when n <= 0: the
\* set is empty and the calling step cannot complete)
randbelow(n) == 0..(n - 1)

\* secrets.randbits(k): an integer in [0, 2^k)
randbits(k) == 0..(2 ^ k - 1)

randomNumberInRange(lowerBound, upperBound) ==
    {lowerBound + r : r \in randbelow(upperBound + 1)}

randomBits(bits) == randbits(bits)

randomBigInteger(bits) == {r + 2 ^ (bits - 1) : r \in randomBits(bits - 1)}


(***************************************************************************)
(* State.                                                                  *)
(*   party    the fields of the two ElGamal objects of the script          *)
(*            (Alice = ElGamal(), Bob = ElGamal()); attrs is the set of    *)
(*            attributes assigned so far, a field outside it is undefined  *)
(*   pc       position of the script that drives the two objects           *)
(*   message, cipher, recvMsg   the script's variables of the same names   *)
(*   call     the last call made and its outcome                           *)
(***************************************************************************)
Parties == {"Alice", "Bob"}

GroupAttrs ==
    {"modulo", "order", "orderFactorization", "generator", "bits", "bytes"}

KeyAttrs == {"privateKey", "publicKey", "publicKeyInverse"}

\* an object right after ElGamal(): the class has no __init__
Fresh ==
    [attrs |-> {}, modulo |-> 0, order |-> 0, orderFactorization |-> <<>>,
     generator |-> 0, bits |-> 0, bytes |-> 0,
     privateKey |-> 0, publicKey |-> 0, publicKeyInverse |-> 0]

NoMessage == [kind |-> "none", number |-> 0, text |-> <<>>]

NoCipher ==
    [kind |-> "none", encryptedNumber |-> 0, power |-> 0,
     length |-> 0, cipher |-> <<>>, key |-> <<>>]

NoCall ==
    [fn |-> "none", self |-> "none", args |-> <<>>, draws |-> <<>>,
     ret |-> Ok(0)]

Init ==
    /\ party = [x \in Parties |-> Fresh]
    /\ pc = "group"
    /\ message = NoMessage
    /\ cipher = NoCipher
    /\ recvMsg = NoMessage
    /\ call = NoCall

(***************************************************************************)
(* ElGamal: generation methods.  Each ...Of operator is the object after   *)
(* the method ran with the given random draws.                             *)
(***************************************************************************)
\* the loop "while not fastPrimalityTest(p, pList, pList)" of
\* generateSafeCyclicGroup, as <<p, k>>
RECURSIVE safePrimeLoop(_, _, _, _)
safePrimeLoop(p, k, twoQ, pList) ==
    IF ~fastPrimalityTest(p, pList, pList)
    THEN safePrimeLoop(p + twoQ, k + 1, twoQ, pList)
    ELSE <<p, k>>

\* the loop "while 0 < p: p >>= 1; self.bits += 1"
RECURSIVE bitsLoop(_, _)
bitsLoop(p, bits) == IF 0 < p THEN bitsLoop(p \div 2, bits + 1) ELSE bits

\* self.bits = bits; p >>= bits; then the loop
bitsOfModulo(p, bits) == bitsLoop(p \div (2 ^ bits), bits)

\* (self.bits>>3) + (0 if self.bits>>3 == 0 else 1)
bytesOfSafeGroup(bits) ==
    (bits \div 8) + (IF bits \div 8 = 0 THEN 0 ELSE 1)

\* self.bits>>3 + (0 if self.bits>>3 == 0 else 1): + binds tighter than >>
bytesOfPlainGroup(bits) ==
    bits \div (2 ^ (3 + (IF bits \div 8 = 0 THEN 0 ELSE 1)))

generateSafeCyclicGroupOf(self, bits, bigNumber) ==
    LET q == nextPrime(bigNumber)
        twoQ == q * 2
        pList == sieveOfEratosthenesForAlmostDeterministicMillerRabin(twoQ + 1)
        pk == safePrimeLoop(twoQ + 1, 1, twoQ, pList)
        p == pk[1]
        k == pk[2]
        orderFactorization ==
            Append(factorizationTrialDivision(2 * k), <<q, 1>>)
        selfBits == bitsOfModulo(p, bits)
    IN  [self EXCEPT !.attrs = @ \cup GroupAttrs,
                     !.modulo = p,
                     !.order = p - 1,
                     !.orderFactorization = orderFactorization,
                     !.generator = primitiveRoot(orderFactorization, p),
                     !.bits = selfBits,
                     !.bytes = bytesOfSafeGroup(selfBits)]

generateCyclicGroupOf(self, bits, bigNumber, generator) ==
    LET p == nextPrime(bigNumber)
        selfBits == bitsOfModulo(p, bits)
    IN  [self EXCEPT !.attrs = @ \cup GroupAttrs,
                     !.modulo = p,
                     !.order = p - 1,
                     !.orderFactorization = <<>>,
                     !.generator = generator,
                     !.bits = selfBits,
                     !.bytes = bytesOfPlainGroup(selfBits)]

\* the loop "while euclidean(generator, modulo) != 1: generator += 1"
RECURSIVE coprimeLoop(_, _)
coprimeLoop(generator, modulo) ==
    IF euclidean(generator, modulo) # 1
    THEN coprimeLoop(generator + 1, modulo)
    ELSE generator

\* orderFactorization is not assigned by generateSimpleGroup
generateSimpleGroupOf(self, bits, modulo, generator) ==
    [self EXCEPT !.attrs = @ \cup (GroupAttrs \ {"orderFactorization"}),
                 !.modulo = modulo,
                 !.order = modulo - 1,
                 !.generator = coprimeLoop(generator, modulo),
                 !.bits = bits,
                 !.bytes = bytesOfPlainGroup(bits)]

generateKeysOf(self, privateKey) ==
    LET publicKey ==
            modularExponentiation(self.generator, privateKey, self.modulo)
    IN  [self EXCEPT !.attrs = @ \cup KeyAttrs,
                     !.privateKey = privateKey,
                     !.publicKey = publicKey,
                     !.publicKeyInverse =
                         multiplicativeInverse(publicKey, self.modulo)]

\* the draws of generateKeys and of encryptJSON's random key exponent
keyExponents(self) ==
    LET minKey == self.order \div 8
    IN  randomNumberInRange(minKey, self.order - 1 - minKey)

(***************************************************************************)
(* The methods as steps of object x.  bitsArgs is the set the argument     *)
(* bits is drawn from (2 and up: with bits = 1 the draw is 1 and neither   *)
(* nextPrime(1) nor generateSimpleGroup completes).  The other variables   *)
(* are left to the specification that uses the step.                       *)
(***************************************************************************)
\* draws: the values the random source returned during the call
Called(fn, x, args, draws, ret) ==
    [fn |-> fn, self |-> x, args |-> args, draws |-> draws, ret |-> ret]

generateSafeCyclicGroup(x, bitsArgs) ==
    \E bits \in bitsArgs :
      \E bigNumber \in randomBigInteger(bits) :
        /\ party' = [party EXCEPT
                        ![x] = generateSafeCyclicGroupOf(@, bits, bigNumber)]
        /\ call' = Called("generateSafeCyclicGroup", x, <<bits>>,
                        <<bigNumber>>, Ok(0))

generateCyclicGroup(x, bitsArgs) ==
    \E bits \in bitsArgs :
      \E bigNumber \in randomBigInteger(bits) :
        \E generator \in randomNumberInRange(0, nextPrime(bigNumber) - 1) :
          /\ party' = [party EXCEPT
                ![x] = generateCyclicGroupOf(@, bits, bigNumber, generator)]
          /\ call' = Called("generateCyclicGroup", x, <<bits>>,
                            <<bigNumber, generator>>, Ok(0))

generateSimpleGroup(x, bitsArgs) ==
    \E bits \in bitsArgs :
      \E modulo \in randomBigInteger(bits) :
        \E generator \in randomNumberInRange(2, modulo - 2) :
          /\ party' = [party EXCEPT
                ![x] = generateSimpleGroupOf(@, bits, modulo, generator)]
          /\ call' = Called("generateSimpleGroup", x, <<bits>>,
                            <<modulo, generator>>, Ok(0))

\* self.order is read first: AttributeError on an object without a group
generateKeys(x) ==
    IF "order" \notin party[x].attrs
    THEN /\ call' = Called("generateKeys", x, <<>>, <<>>,
                         Raise("AttributeError"))
         /\ UNCHANGED party
    ELSE \E privateKey \in keyExponents(party[x]) :
           /\ party' = [party EXCEPT ![x] = generateKeysOf(@, privateKey)]
           /\ call' = Called("generateKeys", x, <<>>, <<privateKey>>, Ok(0))

(***************************************************************************)
(* Conversions used by encryptJSON / decryptJSON.  A str is a sequence of  *)
(* code points, bytes a sequence of values 0..255, base64 text a sequence  *)
(* of 6-bit digits with PadChar for '='.                                   *)
(***************************************************************************)
\* str.encode("utf-8") of one code point (no surrogate is ever encoded)
utf8OfCodePoint(cp) ==
    IF cp < 128 THEN <<cp>>
    ELSE IF cp < 2048 THEN <<192 + (cp \div 64), 128 + (cp % 64)>>
    ELSE IF cp < 65536
         THEN <<224 + (cp \div 4096), 128 + ((cp \div 64) % 64), 128 + (cp % 64)>>
    ELSE <<240 + (cp \div 262144), 128 + ((cp \div 4096) % 64),
           128 + ((cp \div 64) % 64), 128 + (cp % 64)>>

RECURSIVE utf8Encode(_)
utf8Encode(text) ==
    IF text = <<>> THEN <<>>
    ELSE utf8OfCodePoint(Head(text)) \o utf8Encode(Tail(text))

isContinuation(data, i) == i <= Len(data) /\ data[i] >= 128 /\ data[i] <= 191

\* bytes.decode("utf-8") from index i, strict: an outcome
RECURSIVE utf8DecodeFrom(_, _, _)
utf8DecodeFrom(data, i, text) ==
    IF i > Len(data) THEN Ok(text)
    ELSE LET b0 == data[i]
         IN  IF b0 < 128 THEN utf8DecodeFrom(data, i + 1, Append(text, b0))
             ELSE IF b0 >= 194 /\ b0 <= 223 /\ isContinuation(data, i + 1)
             THEN utf8DecodeFrom(data, i + 2,
                      Append(text, (b0 - 192) * 64 + (data[i + 1] - 128)))
             ELSE IF /\ b0 >= 224 /\ b0 <= 239
                     /\ isContinuation(data, i + 1)
                     /\ isContinuation(data, i + 2)
                     /\ (b0 = 224 => data[i + 1] >= 160)
                     /\ (b0 = 237 => data[i + 1] <= 159)
             THEN utf8DecodeFrom(data, i + 3,
                      Append(text, (b0 - 224) * 4096
                                   + (data[i + 1] - 128) * 64
                                   + (data[i + 2] - 128)))
             ELSE IF /\ b0 >= 240 /\ b0 <= 244
                     /\ isContinuation(data, i + 1)
                     /\ isContinuation(data, i + 2)
                     /\ isContinuation(data, i + 3)
                     /\ (b0 = 240 => data[i + 1] >= 144)
                     /\ (b0 = 244 => data[i + 1] <= 143)
             THEN utf8DecodeFrom(data, i + 4,
                      Append(text, (b0 - 240) * 262144
                                   + (data[i + 1] - 128) * 4096
                                   + (data[i + 2] - 128) * 64
                                   + (data[i + 3] - 128)))
             ELSE Raise("UnicodeDecodeError")

utf8Decode(data) == utf8DecodeFrom(data, 1, <<>>)

\* int.from_bytes(block, "little")
RECURSIVE fromBytesLittle(_)
fromBytesLittle(block) ==
    IF block = <<>> THEN 0
    ELSE Head(block) + 256 * fromBytesLittle(Tail(block))

\* number.to_bytes(length, "little") of a non-negative number: an outcome
toBytesLittle(number, length) ==
    IF length < 0 THEN Raise("ValueError")
    ELSE IF number >= 256 ^ length THEN Raise("OverflowError")
    ELSE Ok([i \in 1..length |-> (number \div (256 ^ (i - 1))) % 256])

PadChar == 64

\* base64.b64encode(data).decode("utf-8")
RECURSIVE b64encode(_)
b64encode(data) ==
    IF Len(data) = 0 THEN <<>>
    ELSE IF Len(data) = 1
    THEN <<data[1] \div 4, (data[1] % 4) * 16, PadChar, PadChar>>
    ELSE IF Len(data) = 2
    THEN <<data[1] \div 4, ((data[1] % 4) * 16) + (data[2] \div 16),
           (data[2] % 16) * 4, PadChar>>
    ELSE <<data[1] \div 4, ((data[1] % 4) * 16) + (data[2] \div 16),
           ((data[2] % 16) * 4) + (data[3] \div 64), data[3] % 64>>
         \o b64encode(SubSeq(data, 4, Len(data)))

\* base64.b64decode(text) of a text b64encode produced
RECURSIVE b64decode(_)
b64decode(text) ==
    IF Len(text) < 4 THEN <<>>
    ELSE LET c == SubSeq(text, 1, 4)
             b1 == (c[1] * 4) + (c[2] \div 16)
             b2 == ((c[2] % 16) * 16) + (c[3] \div 4)
             b3 == ((c[3] % 4) * 64) + c[4]
         IN  IF c[3] = PadChar THEN <<b1>>
             ELSE IF c[4] = PadChar THEN <<b1, b2>>
             ELSE <<b1, b2, b3>> \o b64decode(SubSeq(text, 5, Len(text)))

(***************************************************************************)
(* ElGamal: auxiliary function dataSlices                                  *)
(***************************************************************************)
\* data[i*numBytes:(i + 1)*numBytes] for i in range(blockListSize),
\* from block i (0-based)
RECURSIVE slicesFrom(_, _, _, _)
slicesFrom(data, numBytes, i, blockListSize) ==
    IF i >= blockListSize THEN <<>>
    ELSE LET last == IF (i + 1) * numBytes < Len(data)
                     THEN (i + 1) * numBytes ELSE Len(data)
         IN  <<SubSeq(data, i * numBytes + 1, last)>>
             \o slicesFrom(data, numBytes, i + 1, blockListSize)

\* an outcome: ZeroDivisionError when numBytes = 0; when numBytes < 0 the
\* floor division makes blockListSize <= 0 and the list is empty
dataSlices(data, numBytes) ==
    IF numBytes = 0 THEN Raise("ZeroDivisionError")
    ELSE IF numBytes < 0 THEN Ok(<<>>)
    ELSE LET blockListSize ==
                 (Len(data) \div numBytes)
                 + (IF Len(data) % numBytes = 0 THEN 0 ELSE 1)
         IN  Ok(slicesFrom(data, numBytes, 0, blockListSize))

(***************************************************************************)
(* ElGamal: encryption and decryption methods, getters and setters.        *)
(* None of them assigns a field of self except setGroup.                   *)
(***************************************************************************)
\* encryptNumber with the draw randomNumber: <<encrypted number, power>>
encryptNumberOf(self, number, publicKey, randomNumber) ==
    LET randomPower ==
            modularExponentiation(self.generator, randomNumber, self.modulo)
        sharedKey ==
            modularExponentiation(publicKey, randomNumber, self.modulo)
    IN  <<(number * sharedKey) % self.modulo, randomPower>>

decryptNumberOf(self, encryptedNumber, power) ==
    LET sharedKey ==
            modularExponentiation(power, self.privateKey, self.modulo)
        sharedKeyInverse == multiplicativeInverse(sharedKey, self.modulo)
    IN  (encryptedNumber * sharedKeyInverse) % self.modulo

\* the loop of encryptJSON over blockList from index i: an outcome whose
\* value is the bytes of cipher
RECURSIVE encryptBlocks(_, _, _, _, _)
encryptBlocks(self, blockList, i, sharedKey, cipherBytes) ==
    IF i > Len(blockList) THEN Ok(cipherBytes)
    ELSE LET blockNumber == fromBytesLittle(blockList[i])
             cipherNumber == (blockNumber * sharedKey) % self.modulo
             out == toBytesLittle(cipherNumber, self.bytes)
         IN  IF out.exc # "none" THEN out
             ELSE encryptBlocks(self, blockList, i + 1, sharedKey,
                                cipherBytes \o out.val)

\* encryptJSON with keyExponent either self.privateKey or the draw: an
\* outcome whose value is the object json.dumps serialises
encryptJSONOf(self, jsonData, publicKey, keyExponent) ==
    LET key == modularExponentiation(self.generator, keyExponent, self.modulo)
        sharedKey == modularExponentiation(publicKey, keyExponent, self.modulo)
        data == utf8Encode(jsonData)
        blockList == dataSlices(data, self.bytes - 1)
    IN  IF blockList.exc # "none" THEN blockList
        ELSE LET cipherBytes ==
                     encryptBlocks(self, blockList.val, 1, sharedKey, <<>>)
                 keyBytes == toBytesLittle(key, self.bytes)
             IN  IF cipherBytes.exc # "none" THEN cipherBytes
                 ELSE IF keyBytes.exc # "none" THEN keyBytes
                 ELSE Ok([length |-> Len(data),
                          cipher |-> b64encode(cipherBytes.val),
                          key |-> b64encode(keyBytes.val)])

\* the loop of decryptJSON over blockList from index i
RECURSIVE decryptBlocks(_, _, _, _, _)
decryptBlocks(self, blockList, i, sharedKeyInverse, data) ==
    IF i > Len(blockList) THEN Ok(data)
    ELSE LET blockNumber == fromBytesLittle(blockList[i])
             dataNumber == (blockNumber * sharedKeyInverse) % self.modulo
             out == toBytesLittle(dataNumber, self.bytes - 1)
         IN  IF out.exc # "none" THEN out
             ELSE decryptBlocks(self, blockList, i + 1, sharedKeyInverse,
                                data \o out.val)

\* decryptJSON of the object json.loads returns: an outcome whose value is
\* the decoded str
decryptJSONOf(self, dictionary) ==
    LET key == fromBytesLittle(b64decode(dictionary.key))
        sharedKey == modularExponentiation(key, self.privateKey, self.modulo)
        sharedKeyInverse == multiplicativeInverse(sharedKey, self.modulo)
        blockList == dataSlices(b64decode(dictionary.cipher), self.bytes)
    IN  IF blockList.exc # "none" THEN blockList
        ELSE LET data == decryptBlocks(self, blockList.val, 1,
                                       sharedKeyInverse, <<>>)
             IN  IF data.exc # "none" THEN data
                 ELSE LET n == IF dictionary.length < Len(data.val)
                               THEN dictionary.length ELSE Len(data.val)
                      IN  utf8Decode(SubSeq(data.val, 1, n))

\* getGroup: an outcome, AttributeError when a field was never assigned
getGroupOf(self) ==
    IF ~(GroupAttrs \subseteq self.attrs) THEN Raise("AttributeError")
    ELSE Ok(<<self.modulo, self.order, self.orderFactorization,
              self.generator, self.bits, self.bytes>>)

setGroupOf(self, group) ==
    [self EXCEPT !.attrs = @ \cup GroupAttrs,
                 !.modulo = group[1],
                 !.order = group[2],
                 !.orderFactorization = group[3],
                 !.generator = group[4],
                 !.bits = group[5],
                 !.bytes = group[6]]

(***************************************************************************)
(* SpecNT: the NumberTheory functions called on their own, with arguments  *)
(* drawn from bounded sets.  The functions are static and keep no state,   *)
(* so a behaviour is one call.                                             *)
(***************************************************************************)
CallNextPrime ==
    /\ call = NoCall
    /\ \E number \in 2..MaxArg :
          call' = Called("nextPrime", "none", <<number>>, <<>>,
                         Ok(nextPrime(number)))
    /\ UNCHANGED <<party, pc, message, cipher, recvMsg>>

CallMultiplicativeInverse ==
    /\ call = NoCall
    /\ \E number \in 0..MaxBase, modulo \in 2..MaxMod :
          call' = Called("multiplicativeInverse", "none", <<number, modulo>>, <<>>,
                         Ok(multiplicativeInverse(number, modulo)))
    /\ UNCHANGED <<party, pc, message, cipher, recvMsg>>

CallModularExponentiation ==
    /\ call = NoCall
    /\ \E base \in 0..MaxBase, exponent \in 0..MaxExp, modulo \in 2..MaxMod :
          call' = Called("modularExponentiation", "none", <<base, exponent, modulo>>, <<>>,
                         Ok(modularExponentiation(base, exponent, modulo)))
    /\ UNCHANGED <<party, pc, message, cipher, recvMsg>>

CallSieveOfEratosthenes ==
    /\ call = NoCall
    /\ \E maxNumber \in 0..MaxSieve :
          call' = Called("sieveOfEratosthenes", "none", <<maxNumber>>, <<>>,
                         sieveOfEratosthenes(maxNumber))
    /\ UNCHANGED <<party, pc, message, cipher, recvMsg>>

CallFactorizationTrialDivision ==
    /\ call = NoCall
    /\ \E number \in 2..MaxFactor :
          call' = Called("factorizationTrialDivision", "none", <<number>>, <<>>,
                         Ok(factorizationTrialDivision(number)))
    /\ UNCHANGED <<party, pc, message, cipher, recvMsg>>

\* the draw is the value secrets.randbelow(upperBound + 1) returned
CallRandomNumberInRange ==
    /\ call = NoCall
    /\ \E lowerBound \in 0..MaxRange :
         \E upperBound \in lowerBound..MaxRange :
           \E number \in randomNumberInRange(lowerBound, upperBound) :
             call' = Called("randomNumberInRange", "none",
                            <<lowerBound, upperBound>>,
                            <<number - lowerBound>>, Ok(number))
    /\ UNCHANGED <<party, pc, message, cipher, recvMsg>>

CallMillerRabin64Deterministic ==
    /\ call = NoCall
    /\ \E n \in 0..MaxTested :
          call' = Called("millerRabin64Deterministic", "none", <<n>>, <<>>,
                         Ok(millerRabin64Deterministic(n)))
    /\ UNCHANGED <<party, pc, message, cipher, recvMsg>>

NextNT ==
    \/ CallNextPrime
    \/ CallMultiplicativeInverse
    \/ CallModularExponentiation
    \/ CallSieveOfEratosthenes
    \/ CallFactorizationTrialDivision
    \/ CallRandomNumberInRange
    \/ CallMillerRabin64Deterministic

SpecNT == Init /\ [][NextNT]_vars

(***************************************************************************)
(* Properties of the NumberTheory functions (checked under SpecNT).        *)
(***************************************************************************)
\* C7: nextPrime(number) is the smallest prime >= number, for number >= 2;
\* in particular it is never smaller than its argument.
C7_NextPrimeIsSmallestPrimeAtLeast ==
    call.fn = "nextPrime" =>
        LET number == call.args[1]
            prime == call.ret.val
        IN  /\ prime >= number
            /\ IsPrime(prime)
            /\ \A x \in number..(prime - 1) : ~IsPrime(x)

\* C8: multiplicativeInverse(a, m), a >= 0, m >= 2: when gcd(a, m) = 1 the
\* result inv has 0 < inv < m and (a * inv) mod m = 1 (also when a >= m);
\* otherwise the result is the sentinel 0.
C8_InverseOrSentinel ==
    call.fn = "multiplicativeInverse" =>
        LET a == call.args[1]
            m == call.args[2]
            inv == call.ret.val
        IN  IF Gcd(a, m) = 1
            THEN 0 < inv /\ inv < m /\ (a * inv) % m = 1
            ELSE inv = 0

C8_Witness ==
    /\ call.fn = "multiplicativeInverse"
    /\ call.args[1] > call.args[2]
    /\ Gcd(call.args[1], call.args[2]) = 1
    /\ call.ret.val > 1

\* C9: modularExponentiation(b, e, m) = (b^e) mod m for b >= 0, e >= 0,
\* m >= 2, including e = 0 (result 1) and exponents with all bits set.
C9_ModularExponentiationIsPower ==
    call.fn = "modularExponentiation" =>
        LET b == call.args[1]
            e == call.args[2]
            m == call.args[3]
        IN  /\ call.ret.val = PowMod(b, e, m)
            /\ e = 0 => call.ret.val = 1

C9_Witness ==
    /\ call.fn = "modularExponentiation"
    /\ call.args[2] = 15
    /\ call.args[1] > call.args[3]
    /\ call.ret.val > 1

\* C10: sieveOfEratosthenes(n) returns without error the strictly increasing
\* list of all primes <= n, for every n >= 0 (n = 0 and n = 1: empty list).
C10_SieveListsPrimes ==
    call.fn = "sieveOfEratosthenes" =>
        LET n == call.args[1]
            primeList == call.ret.val
        IN  /\ call.ret.exc = "none"
            /\ \A i \in 1..(Len(primeList) - 1) : primeList[i] < primeList[i + 1]
            /\ {primeList[i] : i \in 1..Len(primeList)}
                   = {x \in 0..n : IsPrime(x)}

\* the product of prime^exponent over the pairs i..Len(factorization)
RECURSIVE ProductOfPowers(_, _)
ProductOfPowers(factorization, i) ==
    IF i > Len(factorization) THEN 1
    ELSE (factorization[i][1] ^ factorization[i][2])
             * ProductOfPowers(factorization, i + 1)

\* C11: factorizationTrialDivision(n), n >= 2, prime or composite, returns
\* pairs (prime, exponent) with strictly increasing primes, every first
\* component prime, every exponent >= 1, and product of prime^exponent = n.
C11_FactorizationIsPrimePowerProduct ==
    call.fn = "factorizationTrialDivision" =>
        LET n == call.args[1]
            f == call.ret.val
        IN  /\ \A i \in 1..Len(f) : IsPrime(f[i][1]) /\ f[i][2] >= 1
            /\ \A i \in 1..(Len(f) - 1) : f[i][1] < f[i + 1][1]
            /\ ProductOfPowers(f, 1) = n

\* a composite with a repeated factor and a remainder above its square
\* root (such as 1492 = 2^2 * 373)
C11_Witness ==
    /\ call.fn = "factorizationTrialDivision"
    /\ Len(call.ret.val) = 2
    /\ call.ret.val[1][2] >= 2
    /\ call.ret.val[2][1] > 100
    /\ call.ret.val[2][2] = 1

\* C12: randomNumberInRange(lowerBound, upperBound) returns a number with
\* lowerBound <= number <= upperBound, for 0 <= lowerBound <= upperBound and
\* every value the random source can return.
C12_RandomNumberWithinBounds ==
    call.fn = "randomNumberInRange" =>
        /\ call.args[1] <= call.ret.val
        /\ call.ret.val <= call.args[2]

\* C13: millerRabin64Deterministic(n) returns True if and only if n is
\* prime, for every n >= 0 in range: False for composites and for n < 2,
\* True for every prime, the primes that divide a fixed base included.
C13_Deterministic64IffPrime ==
    call.fn = "millerRabin64Deterministic" =>
        (call.ret.val <=> IsPrime(call.args[1]))


(***************************************************************************)
(* SpecGroup: a fresh object generates its group, as the script does with  *)
(* Alice (src/ElGamal.py lines 326 and 338, and 400, 413 for the two other *)
(* modes).                                                                 *)
(***************************************************************************)
\* largest argument bits of a generation method in SpecGroup
MaxGroupBits == 7

GroupSafe ==
    /\ party["Alice"].attrs = {}
    /\ generateSafeCyclicGroup("Alice", 2..MaxGroupBits)
    /\ UNCHANGED <<pc, message, cipher, recvMsg>>

GroupCyclic ==
    /\ party["Alice"].attrs = {}
    /\ generateCyclicGroup("Alice", 2..MaxGroupBits)
    /\ UNCHANGED <<pc, message, cipher, recvMsg>>

GroupSimple ==
    /\ party["Alice"].attrs = {}
    /\ generateSimpleGroup("Alice", 2..MaxGroupBits)
    /\ UNCHANGED <<pc, message, cipher, recvMsg>>

NextGroup == GroupSafe \/ GroupCyclic \/ GroupSimple

SpecGroup == Init /\ [][NextGroup]_vars

(***************************************************************************)
(* Properties of the generated group (checked under SpecGroup).            *)
(***************************************************************************)
\* C3: after generateSafeCyclicGroup the stored generator is a primitive
\* root of the stored modulo: generator^order mod modulo = 1 and
\* generator^d mod modulo # 1 for every proper divisor d of order.
C3_GeneratorIsPrimitiveRoot ==
    call.fn = "generateSafeCyclicGroup" =>
        LET self == party[call.self]
        IN  /\ self.order = self.modulo - 1
            /\ PowModHalving(self.generator, self.order, self.modulo) = 1
            /\ \A d \in 1..(self.order - 1) :
                  Divides(d, self.order) =>
                      PowModHalving(self.generator, d, self.modulo) # 1

\* a safe-mode group built with a multiplier k > 1 whose factor 2 has an
\* exponent above 1
C3_Witness ==
    /\ call.fn = "generateSafeCyclicGroup"
    /\ Len(party["Alice"].orderFactorization) >= 2
    /\ party["Alice"].orderFactorization[1][2] >= 2
    /\ party["Alice"].modulo > 100

\* C4: after generateSafeCyclicGroup, order = modulo - 1, modulo is prime
\* and modulo is a safe prime: order/2 = (modulo - 1)/2 is prime.
C4_ModuloIsSafePrime ==
    call.fn = "generateSafeCyclicGroup" =>
        LET self == party[call.self]
        IN  /\ self.order = self.modulo - 1
            /\ IsPrime(self.modulo)
            /\ IsPrime(self.order \div 2)

\* the three generation methods
GenerationMethods ==
    {"generateSafeCyclicGroup", "generateCyclicGroup", "generateSimpleGroup"}

\* C14: after each of generateSafeCyclicGroup, generateCyclicGroup and
\* generateSimpleGroup the stored bit length is the bit length of the
\* stored modulo: 2^(bits - 1) <= modulo < 2^bits, for every draw.
C14_StoredBitsAreBitLength ==
    call.fn \in GenerationMethods =>
        LET self == party[call.self]
        IN  /\ 2 ^ (self.bits - 1) <= self.modulo
            /\ self.modulo < 2 ^ self.bits

\* C15: on a generated group every plaintext block of encryptJSON, bytes - 1
\* bytes read as a little-endian integer, is below modulo, that is
\* 256^(bytes - 1) <= modulo (a block of bytes - 1 bytes can be any value
\* up to 256^(bytes - 1) - 1).
C15_BlockBelowModulo ==
    (call.fn \in GenerationMethods /\ party[call.self].bytes >= 1) =>
        256 ^ (party[call.self].bytes - 1) <= party[call.self].modulo


(***************************************************************************)
(* Spec: the script at the end of src/ElGamal.py, with the mode of group   *)
(* generation, the argument bits and the message left open.                *)
(*   "group"  Alice generates a group, any number of times (lines 336-338, *)
(*            400, 413)                                                    *)
(*   "keys"   after Bob.setGroup(Alice.getGroup())      (lines 362, 422)   *)
(*   "send"   after Bob.generateKeys()                  (lines 364, 424)   *)
(*   "recv"   after Alice.encryptJSON / encryptNumber   (lines 372, 432)   *)
(*   "done"   after Bob.decryptJSON / decryptNumber     (lines 378, 434)   *)
(*   "crashed" an exception ended the script                               *)
(***************************************************************************)
\* largest argument bits of a generation method in Spec and SpecLifecycle
MaxBits == 3
\* longest message text, in code points
MaxTextLen == 2

\* code points of the message texts: "A" (one byte in UTF-8) and
\* "e acute" (two bytes, both above 127)
Alphabet == {65, 233}

Texts == UNION {[1..n -> Alphabet] : n \in 0..MaxTextLen}

ScriptGenerateSafe ==
    /\ pc = "group"
    /\ generateSafeCyclicGroup("Alice", 2..MaxBits)
    /\ UNCHANGED <<pc, message, cipher, recvMsg>>

ScriptGenerateCyclic ==
    /\ pc = "group"
    /\ generateCyclicGroup("Alice", 2..MaxBits)
    /\ UNCHANGED <<pc, message, cipher, recvMsg>>

ScriptGenerateSimple ==
    /\ pc = "group"
    /\ generateSimpleGroup("Alice", 2..MaxBits)
    /\ UNCHANGED <<pc, message, cipher, recvMsg>>

\* Bob.setGroup(Alice.getGroup())
ScriptShareGroup ==
    /\ pc = "group"
    /\ LET group == getGroupOf(party["Alice"])
       IN  IF group.exc # "none"
           THEN /\ call' = Called("getGroup", "Alice", <<>>, <<>>, group)
                /\ pc' = "crashed"
                /\ UNCHANGED party
           ELSE /\ party' = [party EXCEPT !["Bob"] = setGroupOf(@, group.val)]
                /\ call' = Called("setGroup", "Bob", <<>>, <<>>, Ok(0))
                /\ pc' = "keys"
    /\ UNCHANGED <<message, cipher, recvMsg>>

\* Bob.generateKeys()
ScriptGenerateKeys ==
    /\ pc = "keys"
    /\ generateKeys("Bob")
    /\ pc' = "send"
    /\ UNCHANGED <<message, cipher, recvMsg>>

\* cipher = Alice.encryptNumber(randomNumber, Bob.getPublicKey())
ScriptEncryptNumber ==
    /\ pc = "send"
    /\ \E number \in 0..(party["Alice"].modulo - 1) :
         \E randomNumber \in randomNumberInRange(0, party["Alice"].modulo - 1) :
           LET c == encryptNumberOf(party["Alice"], number,
                                    party["Bob"].publicKey, randomNumber)
           IN  /\ message' = [NoMessage EXCEPT !.kind = "number",
                                               !.number = number]
               /\ cipher' = [NoCipher EXCEPT !.kind = "number",
                                             !.encryptedNumber = c[1],
                                             !.power = c[2]]
               /\ call' = Called("encryptNumber", "Alice",
                                 <<number, party["Bob"].publicKey>>,
                                 <<randomNumber>>, Ok(0))
    /\ pc' = "recv"
    /\ UNCHANGED <<party, recvMsg>>

\* cipher = Alice.encryptJSON(message, Bob.publicKey)
ScriptEncryptJSON ==
    /\ pc = "send"
    /\ \E text \in Texts :
         \E keyExponent \in keyExponents(party["Alice"]) :
           LET out == encryptJSONOf(party["Alice"], text,
                                    party["Bob"].publicKey, keyExponent)
           IN  /\ message' = [NoMessage EXCEPT !.kind = "text", !.text = text]
               /\ call' = Called("encryptJSON", "Alice",
                                 <<party["Bob"].publicKey>>, <<keyExponent>>,
                                 IF out.exc = "none" THEN Ok(0) ELSE out)
               /\ IF out.exc = "none"
                  THEN /\ cipher' = [NoCipher EXCEPT
                                        !.kind = "json",
                                        !.length = out.val.length,
                                        !.cipher = out.val.cipher,
                                        !.key = out.val.key]
                       /\ pc' = "recv"
                  ELSE /\ pc' = "crashed"
                       /\ UNCHANGED cipher
    /\ UNCHANGED <<party, recvMsg>>

\* decryptedNumber = Bob.decryptNumber(cipher)
ScriptDecryptNumber ==
    /\ pc = "recv"
    /\ cipher.kind = "number"
    /\ recvMsg' = [NoMessage EXCEPT
                      !.kind = "number",
                      !.number = decryptNumberOf(party["Bob"],
                                     cipher.encryptedNumber, cipher.power)]
    /\ call' = Called("decryptNumber", "Bob",
                      <<cipher.encryptedNumber, cipher.power>>, <<>>, Ok(0))
    /\ pc' = "done"
    /\ UNCHANGED <<party, message, cipher>>

\* recvMsg = Bob.decryptJSON(cipher)
ScriptDecryptJSON ==
    /\ pc = "recv"
    /\ cipher.kind = "json"
    /\ LET out == decryptJSONOf(party["Bob"], cipher)
       IN  /\ call' = Called("decryptJSON", "Bob", <<>>, <<>>,
                             IF out.exc = "none" THEN Ok(0) ELSE out)
           /\ IF out.exc = "none"
              THEN /\ recvMsg' = [NoMessage EXCEPT !.kind = "text",
                                                   !.text = out.val]
                   /\ pc' = "done"
              ELSE /\ pc' = "crashed"
                   /\ UNCHANGED recvMsg
    /\ UNCHANGED <<party, message, cipher>>

Next ==
    \/ ScriptGenerateSafe
    \/ ScriptGenerateCyclic
    \/ ScriptGenerateSimple
    \/ ScriptShareGroup
    \/ ScriptGenerateKeys
    \/ ScriptEncryptNumber
    \/ ScriptEncryptJSON
    \/ ScriptDecryptNumber
    \/ ScriptDecryptJSON

Spec == Init /\ [][Next]_vars

(***************************************************************************)
(* Properties of the script's round trips and keys (checked under Spec).   *)
(***************************************************************************)
\* C1: for a group produced by any of the three generation methods, a
\* receiver key pair from generateKeys on it and a sender holding the same
\* group, decryptNumber(encryptNumber(m, receiver.publicKey)) = m for every
\* m in [0, modulo) and every ephemeral exponent.
C1_NumberRoundTrip ==
    (pc = "done" /\ message.kind = "number") =>
        recvMsg.number = message.number

\* C2: decryptJSON(encryptJSON(text, receiver.publicKey)) = text for every
\* UTF-8 text on any generated group, and encryptJSON completes without
\* error.
C2_TextRoundTrip ==
    (message.kind = "text" /\ pc \in {"recv", "done", "crashed"}) =>
        /\ pc # "crashed"
        /\ pc = "done" => recvMsg.text = message.text

\* C5: after generateKeys the private key satisfies
\* order//8 <= privateKey <= order - 1 - order//8; the same bound holds for
\* the key exponent encryptJSON draws.
C5_KeyExponentRange ==
    /\ (call.fn = "generateKeys" /\ call.ret.exc = "none") =>
           LET self == party[call.self]
           IN  /\ self.order \div 8 <= self.privateKey
               /\ self.privateKey <= self.order - 1 - (self.order \div 8)
    /\ call.fn = "encryptJSON" =>
           LET self == party[call.self]
           IN  /\ self.order \div 8 <= call.draws[1]
               /\ call.draws[1] <= self.order - 1 - (self.order \div 8)


(***************************************************************************)
(* SpecLifecycle: one object (Bob) on which the group methods, setGroup    *)
(* and generateKeys are called in any order, any number of times.  The     *)
(* argument of setGroup is what getGroup() of another object returns       *)
(* after that object generated a group.                                    *)
(***************************************************************************)
\* getGroup() of another object after one of its generation methods; after
\* generateSimpleGroup alone getGroup raises (orderFactorization undefined)
ExportedGroups ==
    {getGroupOf(generateSafeCyclicGroupOf(Fresh, b[1], b[2])).val :
        b \in {c \in (2..MaxBits) \X (1..(2 ^ MaxBits)) :
                  c[2] \in randomBigInteger(c[1])}}
    \cup
    {getGroupOf(generateCyclicGroupOf(Fresh, b[1], b[2], b[3])).val :
        b \in {c \in (2..MaxBits) \X (1..(2 ^ MaxBits)) \X (0..(2 ^ MaxBits)) :
                  /\ c[2] \in randomBigInteger(c[1])
                  /\ c[3] \in randomNumberInRange(0, nextPrime(c[2]) - 1)}}

LifeGenerateSafe ==
    /\ generateSafeCyclicGroup("Bob", 2..MaxBits)
    /\ UNCHANGED <<pc, message, cipher, recvMsg>>

LifeGenerateCyclic ==
    /\ generateCyclicGroup("Bob", 2..MaxBits)
    /\ UNCHANGED <<pc, message, cipher, recvMsg>>

LifeGenerateSimple ==
    /\ generateSimpleGroup("Bob", 2..MaxBits)
    /\ UNCHANGED <<pc, message, cipher, recvMsg>>

LifeSetGroup ==
    /\ \E group \in ExportedGroups :
          /\ party' = [party EXCEPT !["Bob"] = setGroupOf(@, group)]
          /\ call' = Called("setGroup", "Bob", <<>>, <<>>, Ok(0))
    /\ UNCHANGED <<pc, message, cipher, recvMsg>>

LifeGenerateKeys ==
    /\ generateKeys("Bob")
    /\ UNCHANGED <<pc, message, cipher, recvMsg>>

NextLifecycle ==
    \/ LifeGenerateSafe
    \/ LifeGenerateCyclic
    \/ LifeGenerateSimple
    \/ LifeSetGroup
    \/ LifeGenerateKeys

SpecLifecycle == Init /\ [][NextLifecycle]_vars

(***************************************************************************)
(* Properties of an object's keys (checked under SpecLifecycle).           *)
(***************************************************************************)
\* C6: in every state reachable by the group methods, setGroup and
\* generateKeys on one object, whenever a key pair exists it belongs to the
\* object's current group: publicKey = generator^privateKey mod modulo and
\* (publicKey * publicKeyInverse) mod modulo = 1.
C6_KeysBelongToGroup ==
    \A x \in Parties :
        KeyAttrs \subseteq party[x].attrs =>
            LET self == party[x]
            IN  /\ self.publicKey =
                      PowModHalving(self.generator, self.privateKey,
                                    self.modulo)
                /\ (self.publicKey * self.publicKeyInverse) % self.modulo = 1

\* C16: after generateCyclicGroup or generateSimpleGroup on an object,
\* whatever ran on it before (nothing, or an earlier
\* generateSafeCyclicGroup or setGroup), orderFactorization is defined and
\* is the empty list, and getGroup() succeeds and exports an empty
\* factorization.
C16_PlainModesExportEmptyFactorization ==
    call.fn \in {"generateCyclicGroup", "generateSimpleGroup"} =>
        LET self == party[call.self]
            group == getGroupOf(self)
        IN  /\ "orderFactorization" \in self.attrs
            /\ self.orderFactorization = <<>>
            /\ group.exc = "none"
            /\ group.val[3] = <<>>


=============================================================================
